---- MODULE Spec2Model ----
(***************************************************************************)
(* A model of app.py, the clinical record-keeping web application: the     *)
(* User and PatientData tables, the upload folder, the session cookie and  *)
(* the request handlers login, logout, dashboard, create_patient, predict, *)
(* add_note and upload_biopsy.                                             *)
(*                                                                         *)
(* Text is modelled as a sequence of one-character strings, so that the    *)
(* regular expressions, the JSON columns, secure_filename and the          *)
(* percentage formatting are computed character by character.  Enum-like   *)
(* values (role, status, message, risk_status) are TLA+ strings.           *)
(***************************************************************************)
EXTENDS Integers, Sequences, FiniteSets, TLC

VARIABLES users, patients, uploads, session, last, artifacts, pc, loc

vars == <<users, patients, uploads, session, last, artifacts, pc, loc>>

(***************************************************************************)
(* Characters                                                              *)
(***************************************************************************)
UpperSeq ==
    <<"A", "B", "C", "D", "E", "F", "G", "H", "I", "J", "K", "L", "M",
      "N", "O", "P", "Q", "R", "S", "T", "U", "V", "W", "X", "Y", "Z">>

LowerSeq ==
    <<"a", "b", "c", "d", "e", "f", "g", "h", "i", "j", "k", "l", "m",
      "n", "o", "p", "q", "r", "s", "t", "u", "v", "w", "x", "y", "z">>

DigitSeq == <<"0", "1", "2", "3", "4", "5", "6", "7", "8", "9">>

Range(f) == {f[i] : i \in DOMAIN f}

Upper == Range(UpperSeq)

Lower == Range(LowerSeq)

Digit == Range(DigitSeq)

\* The ASCII control characters 0x01 to 0x1f, in the order of their codes
ControlSeq ==
    <<"", "", "", "", "", "", "", "",
      "\t", "\n", "", "\f", "\r", "", "", "",
      "", "", "", "", "", "", "", "",
      "", "", "", "", "", "", "">>

\* The printable ASCII characters from the space (0x20) to "_" (0x5f), those
\* from "a" (0x61) to "~" (0x7e), and DEL (0x7f).  The one between, 0x60,
\* cannot be written in a TLA+ string; it, NUL and the characters beyond
\* ASCII are outside the texts of this model.
PrintableSeq ==
    <<" ", "!", "\"", "#", "$", "%", "&", "'", "(", ")", "*", "+",
      ",", "-", ".", "/", "0", "1", "2", "3", "4", "5", "6", "7",
      "8", "9", ":", ";", "<", "=", ">", "?", "@", "A", "B", "C",
      "D", "E", "F", "G", "H", "I", "J", "K", "L", "M", "N", "O",
      "P", "Q", "R", "S", "T", "U", "V", "W", "X", "Y", "Z", "[",
      "\\", "]", "^", "_">>

AfterGraveSeq ==
    <<"a", "b", "c", "d", "e", "f", "g", "h", "i", "j", "k", "l",
      "m", "n", "o", "p", "q", "r", "s", "t", "u", "v", "w", "x",
      "y", "z", "{", "|", "}", "~">>

Delete == ""

\* \s of Python's re, and what str.split() splits on, on ASCII text: 0x09 to
\* 0x0d, 0x1c to 0x1f and the space
Whitespace == {ControlSeq[i] : i \in (9..13) \cup (28..31)} \cup {" "}

\* the class [!@#$%^&*(),.?":{}|<>] of the password rule
Special ==
    {"!", "@", "#", "$", "%", "^", "&", "*", "(", ")", ",", ".", "?",
     "\"", ":", "{", "}", "|", "<", ">"}

NameClass == Upper \cup Lower \cup Whitespace

IdClass == Upper \cup Lower \cup Digit

\* Python's None in a place where text is expected; str(None) is "None"
None == <<"None">>

Str(v) == IF v = None THEN <<"N", "o", "n", "e">> ELSE v

\* dict.get(key, default)
Get(d, key, default) == IF key \in DOMAIN d THEN d[key] ELSE default

(***************************************************************************)
(* Regular expressions of validate_registration                            *)
(***************************************************************************)
\* re.match(r"^[class]+$", s): one or more characters of the class from the
\* start, then "$", which matches at the end of s and also just before a
\* newline that ends s.
MatchPlusDollar(class, s) ==
    \E k \in 1..Len(s) :
        /\ \A i \in 1..k : s[i] \in class
        /\ \/ k = Len(s)
           \/ k = Len(s) - 1 /\ s[Len(s)] = "\n"

\* re.search(r"[class]", s)
SearchClass(class, s) == \E i \in 1..Len(s) : s[i] \in class

MinPwdLen == 8

MaxPwdLen == 16

validate_registration(data) ==
    LET name == Get(data, "name", <<>>)
        pid  == Get(data, "patient_id", <<>>)
        pwd  == Get(data, "password", <<>>)
    IN  IF ~MatchPlusDollar(NameClass, name)
          THEN [ok |-> FALSE, msg |-> "Name must contain only alphabets."]
        ELSE IF ~MatchPlusDollar(IdClass, pid)
          THEN [ok |-> FALSE,
                msg |-> "Patient ID must contain only letters and numbers."]
        ELSE IF Len(pwd) < MinPwdLen \/ Len(pwd) > MaxPwdLen
          THEN [ok |-> FALSE, msg |-> "Password must be 8-16 characters long."]
        ELSE IF ~SearchClass(Upper, pwd)
          THEN [ok |-> FALSE,
                msg |-> "Password must contain at least one capital letter."]
        ELSE IF ~SearchClass(Digit, pwd)
          THEN [ok |-> FALSE,
                msg |-> "Password must contain at least one number."]
        ELSE IF ~SearchClass(Special, pwd)
          THEN [ok |-> FALSE,
                msg |-> "Password must contain at least one special character."]
        ELSE [ok |-> TRUE, msg |-> "Valid"]

(***************************************************************************)
(* json.dumps / json.loads of a list of strings (the notes and images      *)
(* columns), on ASCII text                                                 *)
(***************************************************************************)
HexSeq ==
    <<"0", "1", "2", "3", "4", "5", "6", "7", "8", "9", "a", "b", "c", "d",
      "e", "f">>

\* the characters json.dumps does not copy as they are
Escaped == Range(ControlSeq) \cup {Delete, "\"", "\\"}

Index(seq, c) == CHOOSE i \in DOMAIN seq : seq[i] = c

\* \u00XX of a control character or DEL
UnicodeEscape(code) ==
    <<"\\", "u", "0", "0", HexSeq[(code \div 16) + 1], HexSeq[(code % 16) + 1]>>

JsonEscape(c) ==
    IF c \notin Escaped THEN <<c>>
    ELSE IF c = "\"" THEN <<"\\", "\"">>
    ELSE IF c = "\\" THEN <<"\\", "\\">>
    ELSE IF c = "\n" THEN <<"\\", "n">>
    ELSE IF c = "\r" THEN <<"\\", "r">>
    ELSE IF c = "\t" THEN <<"\\", "t">>
    ELSE IF c = "\f" THEN <<"\\", "f">>
    ELSE IF c = ControlSeq[8] THEN <<"\\", "b">>
    ELSE IF c = Delete THEN UnicodeEscape(127)
    ELSE UnicodeEscape(Index(ControlSeq, c))

\* the character an escape of one letter writes
JsonUnescape(c) ==
    IF c = "n" THEN "\n"
    ELSE IF c = "r" THEN "\r"
    ELSE IF c = "t" THEN "\t"
    ELSE IF c = "f" THEN "\f"
    ELSE IF c = "b" THEN ControlSeq[8]
    ELSE c

HexVal(c) ==
    IF c \in Digit THEN Index(DigitSeq, c) - 1
    ELSE IF c \in Lower THEN Index(LowerSeq, c) + 9
    ELSE Index(UpperSeq, c) + 9

\* The character of a code.  The codes 0 and 0x60 and those past 0x7f have
\* no character in this model: no arm is theirs.
CharOf(code) ==
    CASE code \in 1..31   -> ControlSeq[code]
      [] code \in 32..95  -> PrintableSeq[code - 31]
      [] code \in 97..126 -> AfterGraveSeq[code - 96]
      [] code = 127       -> Delete

\* the character \uXXXX writes, s[i..i+3] being the four hex digits
UnicodeChar(s, i) ==
    CharOf(4096 * HexVal(s[i]) + 256 * HexVal(s[i + 1])
             + 16 * HexVal(s[i + 2]) + HexVal(s[i + 3]))

\* the first position from i on of s that holds a character of set, 0 when
\* there is none
FirstIn(s, i, set) ==
    IF \A j \in i..Len(s) : s[j] \notin set THEN 0
    ELSE CHOOSE j \in i..Len(s) :
           s[j] \in set /\ \A k \in i..(j - 1) : s[k] \notin set

RECURSIVE JsonString(_, _)
RECURSIVE EscapeAt(_, _, _)
\* the characters of s from position i on, escaped: the text up to the next
\* character to escape is copied
JsonString(s, i) == EscapeAt(s, i, FirstIn(s, i, Escaped))

EscapeAt(s, i, j) ==
    IF j = 0 THEN SubSeq(s, i, Len(s))
    ELSE SubSeq(s, i, j - 1) \o JsonEscape(s[j]) \o JsonString(s, j + 1)

RECURSIVE JsonItems(_, _)
JsonItems(list, i) ==
    IF i > Len(list) THEN <<>>
    ELSE (IF i > 1 THEN <<",", " ">> ELSE <<>>)
         \o <<"\"">> \o JsonString(list[i], 1) \o <<"\"">>
         \o JsonItems(list, i + 1)

\* json.dumps(list): ["a", "b"] with ", " between the items
JsonDumps(list) == <<"[">> \o JsonItems(list, 1) \o <<"]">>

\* json.loads raises JSONDecodeError
JsonError == [ok |-> FALSE, val |-> <<>>, next |-> 0]

\* where a chunk of a string ends: at a quote, a backslash or a control
\* character
Terminators == Range(ControlSeq) \cup {"\"", "\\"}

RECURSIVE ParseString(_, _, _)
RECURSIVE ParseTerminator(_, _, _)
\* s[i] is the first character after an opening quote or an escape; acc is
\* the text read.  [ok, val, next]: the string and the position after its
\* closing quote.
ParseString(s, i, acc) ==
    ParseTerminator(s, FirstIn(s, i, Terminators),
                    acc \o SubSeq(s, i, FirstIn(s, i, Terminators) - 1))

\* s[j] ends a chunk, j = 0 when the text ends inside the string
ParseTerminator(s, j, acc) ==
    IF j = 0 THEN JsonError
    ELSE IF s[j] = "\"" THEN [ok |-> TRUE, val |-> acc, next |-> j + 1]
    ELSE IF s[j] # "\\" \/ j = Len(s) THEN JsonError
    ELSE IF s[j + 1] \in {"\"", "\\", "/", "b", "f", "n", "r", "t"}
      THEN ParseString(s, j + 2, Append(acc, JsonUnescape(s[j + 1])))
    ELSE IF /\ s[j + 1] = "u"
            /\ j + 5 <= Len(s)
            /\ \A k \in 2..5 :
                  s[j + k] \in Digit \cup {"a", "b", "c", "d", "e", "f",
                                           "A", "B", "C", "D", "E", "F"}
      THEN ParseString(s, j + 6, Append(acc, UnicodeChar(s, j + 2)))
    ELSE JsonError

RECURSIVE SkipSpace(_, _)
\* the first position from i on that holds none of the whitespace json.loads
\* skips between the tokens
SkipSpace(s, i) ==
    IF i <= Len(s) /\ s[i] \in {" ", "\t", "\n", "\r"}
      THEN SkipSpace(s, i + 1)
      ELSE i

\* the characters that start a JSON value other than a string
OtherValueStart == Digit \cup {"-", "[", "{", "t", "f", "n", "N", "I"}

RECURSIVE ParseItems(_, _, _)
RECURSIVE ParseRest(_, _, _)
RECURSIVE ParseSeparator(_, _, _)
\* s[i] starts an item of the array; out are the items read.  An item is a
\* string: the columns hold no other value, and no arm is theirs.
\* [ok, val, next]: the items and the position after the closing bracket.
ParseItems(s, i, out) ==
    CASE i > Len(s) -> JsonError
      [] i <= Len(s) /\ s[i] = "\"" -> ParseRest(s, ParseString(s, i + 1, <<>>), out)
      [] i <= Len(s) /\ s[i] \notin OtherValueStart \cup {"\""} -> JsonError

\* after the item r: a comma and the next item, or the closing bracket
ParseRest(s, r, out) ==
    IF ~r.ok THEN JsonError
    ELSE ParseSeparator(s, SkipSpace(s, r.next), Append(out, r.val))

ParseSeparator(s, i, out) ==
    IF i > Len(s) THEN JsonError
    ELSE IF s[i] = "]" THEN [ok |-> TRUE, val |-> out, next |-> i + 1]
    ELSE IF s[i] = "," THEN ParseItems(s, SkipSpace(s, i + 1), out)
    ELSE JsonError

\* after the opening bracket at i - 1
ParseArray(s, i) ==
    IF i <= Len(s) /\ s[i] = "]" THEN [ok |-> TRUE, val |-> <<>>, next |-> i + 1]
    ELSE ParseItems(s, i, <<>>)

\* nothing but whitespace may follow the array
ParseEnd(s, r) ==
    IF r.ok /\ SkipSpace(s, r.next) > Len(s)
      THEN [ok |-> TRUE, val |-> r.val]
      ELSE [ok |-> FALSE, val |-> <<>>]

ParseDocument(s, i) ==
    CASE i > Len(s) -> [ok |-> FALSE, val |-> <<>>]
      [] i <= Len(s) /\ s[i] = "[" -> ParseEnd(s, ParseArray(s, SkipSpace(s, i + 1)))
      [] i <= Len(s) /\ s[i] \notin OtherValueStart \cup {"\""} ->
           [ok |-> FALSE, val |-> <<>>]

\* json.loads(column) of a column that holds a JSON array of strings, or text
\* that is no JSON: [ok, val], ok = FALSE where json.loads raises
JsonLoads(s) == ParseDocument(s, SkipSpace(s, 1))

EmptyColumn == <<"[", "]">>

(***************************************************************************)
(* werkzeug's secure_filename, on ASCII text                               *)
(***************************************************************************)
ToLower(c) ==
    IF c \in Upper
      THEN LowerSeq[CHOOSE i \in DOMAIN UpperSeq : UpperSeq[i] = c]
      ELSE c

LowerStr(s) == [i \in 1..Len(s) |-> ToLower(s[i])]

RECURSIVE SplitWords(_, _, _, _)
\* str.split(): the maximal runs of non-whitespace characters of s
SplitWords(s, i, word, out) ==
    IF i > Len(s)
      THEN IF word = <<>> THEN out ELSE Append(out, word)
    ELSE IF s[i] \in Whitespace
      THEN SplitWords(s, i + 1, <<>>,
                      IF word = <<>> THEN out ELSE Append(out, word))
    ELSE SplitWords(s, i + 1, Append(word, s[i]), out)

RECURSIVE JoinWords(_, _, _)
JoinWords(words, sep, i) ==
    IF i > Len(words) THEN <<>>
    ELSE (IF i > 1 THEN sep ELSE <<>>) \o words[i] \o JoinWords(words, sep, i + 1)

FilenameChar(c) == c \in Upper \cup Lower \cup Digit \cup {"_", ".", "-"}

\* str.strip("._")
StripDotUnderscore(s) ==
    LET keep == {i \in 1..Len(s) : s[i] \notin {".", "_"}}
    IN  IF keep = {} THEN <<>>
        ELSE LET lo == CHOOSE i \in keep : \A j \in keep : i <= j
                 hi == CHOOSE i \in keep : \A j \in keep : i >= j
             IN  SubSeq(s, lo, hi)

secure_filename(filename) ==
    LET nosep  == [i \in 1..Len(filename) |->
                     IF filename[i] = "/" THEN " " ELSE filename[i]]
        joined == JoinWords(SplitWords(nosep, 1, <<>>, <<>>), <<"_">>, 1)
    IN  StripDotUnderscore(SelectSeq(joined, FilenameChar))

ALLOWED_EXTENSIONS ==
    {<<"p", "n", "g">>, <<"j", "p", "g">>, <<"j", "p", "e", "g">>,
     <<"p", "d", "f">>}

\* filename.rsplit('.', 1)[1]: the text after the last dot
AfterLastDot(filename) ==
    LET dots == {i \in 1..Len(filename) : filename[i] = "."}
        d    == CHOOSE i \in dots : \A j \in dots : i >= j
    IN  SubSeq(filename, d + 1, Len(filename))

\* file and '.' in file.filename and
\* file.filename.rsplit('.', 1)[1].lower() in ALLOWED_EXTENSIONS
allowed_file(file) ==
    /\ file # None
    /\ file # <<>>
    /\ "." \in Range(file)
    /\ LowerStr(AfterLastDot(file)) \in ALLOWED_EXTENSIONS

(***************************************************************************)
(* f"{prob*100:.1f}%" and f"{prob*100:.2f}%"                               *)
(* A probability is a double, and the formats round the double prob*100    *)
(* to the nearest decimal of one or two places, a tie to the even one.     *)
(* A probability is modelled by what decides this, [m, side]: m the        *)
(* integer nearest to prob*100*1000 and side where the double prob*100     *)
(* lies of m/1000, "below", "exact" or "above".  The literal 0.85 is       *)
(* [85000, "exact"]: 0.85*100 is the double 85.0.                          *)
(***************************************************************************)
Prob(m, side) == [m |-> m, side |-> side]

RECURSIVE IntStr(_)
IntStr(n) ==
    IF n < 10 THEN <<DigitSeq[n + 1]>>
    ELSE Append(IntStr(n \div 10), DigitSeq[(n % 10) + 1])

\* The multiple of unit thousandths nearest to the double of p, as a number
\* of units.  Half a unit from two multiples, m leaves the choice to side,
\* and a double that is the tie itself goes to the even multiple.
RoundDiv(p, unit) ==
    IF 2 * (p.m % unit) < unit THEN p.m \div unit
    ELSE IF 2 * (p.m % unit) > unit THEN (p.m \div unit) + 1
    ELSE IF p.side = "above" THEN (p.m \div unit) + 1
    ELSE IF p.side = "below" THEN p.m \div unit
    ELSE (p.m \div unit) + ((p.m \div unit) % 2)

\* the tenths t of a percentage, written with one decimal
Pct1Text(t) == IntStr(t \div 10) \o <<".", DigitSeq[(t % 10) + 1], "%">>

\* the hundredths h of a percentage, written with two decimals
Pct2Text(h) ==
    IntStr(h \div 100)
      \o <<".", DigitSeq[((h \div 10) % 10) + 1], DigitSeq[(h % 10) + 1], "%">>

\* a variant of FormatPct1 that keeps two decimals
FormatPct1_two_decimals(p) == Pct2Text(RoundDiv(p, 10))

\* f"{prob*100:.1f}%"
FormatPct1(p) == Pct1Text(RoundDiv(p, 100))

\* f"{prob*100:.2f}%"
FormatPct2(p) == Pct2Text(RoundDiv(p, 10))

(***************************************************************************)
(* float(val) of predict's feature loop, on ASCII text.  float() reads,    *)
(* between whitespace, a sign, then "nan", "inf" or "infinity" in any      *)
(* case, or digits with an optional point and an optional exponent, an     *)
(* underscore allowed between two digits.  A float is [kind, neg, digits,  *)
(* exp]: nan, inf, or the double nearest to the decimal the text writes,   *)
(* 0.d1d2..dn times 10^exp with the digit values d1..dn, d1 and dn not 0   *)
(* (no digits and exp 0 for zero), negated when neg.  A decimal of at      *)
(* least 2^1024 - 2^970 has inf as its nearest double.                     *)
(***************************************************************************)
Num(neg, digits, exp) ==
    [kind |-> "num", neg |-> neg, digits |-> digits, exp |-> exp]

NaN == [kind |-> "nan", neg |-> FALSE, digits |-> <<>>, exp |-> 0]

Inf(neg) == [kind |-> "inf", neg |-> neg, digits |-> <<>>, exp |-> 0]

\* 0.0
Zero == Num(FALSE, <<>>, 0)

\* the whitespace float() takes from around the number of an ASCII text:
\* 0x09 to 0x0d and the space
FloatSpace == {ControlSeq[i] : i \in 9..13} \cup {" "}

StripSpace(s) ==
    LET keep == {i \in 1..Len(s) : s[i] \notin FloatSpace}
    IN  IF keep = {} THEN <<>>
        ELSE LET lo == CHOOSE i \in keep : \A j \in keep : i <= j
                 hi == CHOOSE i \in keep : \A j \in keep : i >= j
             IN  SubSeq(s, lo, hi)

DigitVal(c) == Index(DigitSeq, c) - 1

DigitAt(d, i) == IF i <= Len(d) THEN d[i] ELSE 0

\* 0.d times 10^e is at least 0.c times 10^f, for digits d and c that do not
\* start with 0
MagnitudeGeq(d, e, c, f) ==
    IF e # f THEN e > f
    ELSE LET n    == IF Len(d) > Len(c) THEN Len(d) ELSE Len(c)
             diff == {i \in 1..n : DigitAt(d, i) # DigitAt(c, i)}
         IN  \/ diff = {}
             \/ LET k == CHOOSE i \in diff : \A j \in diff : i <= j
                IN  DigitAt(d, k) > DigitAt(c, k)

\* the digits of 2^1024 - 2^970, a number of 309 digits, without its last zeros
InfBoundDigits ==
    <<1, 7, 9, 7, 6, 9, 3, 1, 3, 4, 8, 6, 2, 3, 1, 5, 8, 0, 7, 9, 3, 7, 2, 8,
      9, 7, 1, 4, 0, 5, 3, 0, 3, 4, 1, 5, 0, 7, 9, 9, 3, 4, 1, 3, 2, 7, 1, 0,
      0, 3, 7, 8, 2, 6, 9, 3, 6, 1, 7, 3, 7, 7, 8, 9, 8, 0, 4, 4, 4, 9, 6, 8,
      2, 9, 2, 7, 6, 4, 7, 5, 0, 9, 4, 6, 6, 4, 9, 0, 1, 7, 9, 7, 7, 5, 8, 7,
      2, 0, 7, 0, 9, 6, 3, 3, 0, 2, 8, 6, 4, 1, 6, 6, 9, 2, 8, 8, 7, 9, 1, 0,
      9, 4, 6, 5, 5, 5, 5, 4, 7, 8, 5, 1, 9, 4, 0, 4, 0, 2, 6, 3, 0, 6, 5, 7,
      4, 8, 8, 6, 7, 1, 5, 0, 5, 8, 2, 0, 6, 8, 1, 9, 0, 8, 9, 0, 2, 0, 0, 0,
      7, 0, 8, 3, 8, 3, 6, 7, 6, 2, 7, 3, 8, 5, 4, 8, 4, 5, 8, 1, 7, 7, 1, 1,
      5, 3, 1, 7, 6, 4, 4, 7, 5, 7, 3, 0, 2, 7, 0, 0, 6, 9, 8, 5, 5, 5, 7, 1,
      3, 6, 6, 9, 5, 9, 6, 2, 2, 8, 4, 2, 9, 1, 4, 8, 1, 9, 8, 6, 0, 8, 3, 4,
      9, 3, 6, 4, 7, 5, 2, 9, 2, 7, 1, 9, 0, 7, 4, 1, 6, 8, 4, 4, 4, 3, 6, 5,
      5, 1, 0, 7, 0, 4, 3, 4, 2, 7, 1, 1, 5, 5, 9, 6, 9, 9, 5, 0, 8, 0, 9, 3,
      0, 4, 2, 8, 8, 0, 1, 7, 7, 9, 0, 4, 1, 7, 4, 4, 9, 7, 7, 9, 2>>

InfBoundExp == 309

\* no exponent of a text is read further from 0 than this: past it the
\* decimal of any text of fewer than a million digits is inf, or nearest to 0
ExponentCap == 10000000

NotAFloat == [ok |-> FALSE, val |-> Zero]

\* the double nearest to 0.d times 10^exp, d starting and ending in a digit
\* that is not 0
Finite(neg, d, exp) ==
    IF MagnitudeGeq(d, exp, InfBoundDigits, InfBoundExp)
      THEN [ok |-> TRUE, val |-> Inf(neg)]
      ELSE [ok |-> TRUE, val |-> Num(neg, d, exp)]

\* 0.ds times 10^exp for any digits ds; nz are the places of ds that are not 0
Decimal(neg, ds, nz, exp) ==
    IF nz = {} THEN [ok |-> TRUE, val |-> Num(neg, <<>>, 0)]
    ELSE Finite(neg,
                SubSeq(ds, CHOOSE i \in nz : \A j \in nz : i <= j,
                           CHOOSE i \in nz : \A j \in nz : i >= j),
                exp - (CHOOSE i \in nz : \A j \in nz : i <= j) + 1)

\* the digits ip before and fp after the point, and the exponent e
ParseParts(ip, fp, e, neg) ==
    IF Len(ip) + Len(fp) >= 1 /\ Range(ip) \cup Range(fp) \subseteq Digit
      THEN Decimal(neg, [i \in 1..Len(ip) + Len(fp) |-> DigitVal((ip \o fp)[i])],
                   {i \in 1..Len(ip) + Len(fp) : (ip \o fp)[i] # "0"},
                   Len(ip) + e)
      ELSE NotAFloat

\* the mantissa, with its points at dots
ParseDecimal(mant, dots, e, neg) ==
    IF dots = {} THEN ParseParts(mant, <<>>, e, neg)
    ELSE IF Cardinality(dots) = 1
      THEN ParseParts(SubSeq(mant, 1, (CHOOSE i \in dots : TRUE) - 1),
                      SubSeq(mant, (CHOOSE i \in dots : TRUE) + 1, Len(mant)),
                      e, neg)
    ELSE NotAFloat

RECURSIVE CappedVal(_, _, _)
\* the number the digits s[i..] write after acc, or ExponentCap if less
CappedVal(s, i, acc) ==
    IF i > Len(s) \/ acc >= ExponentCap
      THEN (IF acc >= ExponentCap THEN ExponentCap ELSE acc)
      ELSE CappedVal(s, i + 1, 10 * acc + DigitVal(s[i]))

\* the digits of an exponent, after its sign
ExponentDigits(ex) ==
    IF ex # <<>> /\ ex[1] \in {"-", "+"} THEN Tail(ex) ELSE ex

ExponentVal(ex) ==
    (IF ex # <<>> /\ ex[1] = "-" THEN -1 ELSE 1)
      * CappedVal(ExponentDigits(ex), 1, 0)

\* the mantissa and the exponent beside an "e"
ParseSplit(mant, ex, neg) ==
    IF ExponentDigits(ex) # <<>> /\ Range(ExponentDigits(ex)) \subseteq Digit
      THEN ParseDecimal(mant, {i \in 1..Len(mant) : mant[i] = "."},
                        ExponentVal(ex), neg)
      ELSE NotAFloat

\* the number t, with an "e" or "E" at each place of es
ParseExponent(t, es, neg) ==
    IF es = {} THEN ParseDecimal(t, {i \in 1..Len(t) : t[i] = "."}, 0, neg)
    ELSE ParseSplit(SubSeq(t, 1, (CHOOSE i \in es : \A j \in es : i <= j) - 1),
                    SubSeq(t, (CHOOSE i \in es : \A j \in es : i <= j) + 1, Len(t)),
                    neg)

\* an underscore stands between two digits
UnderscoresOk(s) ==
    \A i \in 1..Len(s) :
        s[i] = "_" => /\ 1 < i
                      /\ i < Len(s)
                      /\ s[i - 1] \in Digit
                      /\ s[i + 1] \in Digit

NotUnderscore(c) == c # "_"

\* the number t, its underscores taken out
ParseNumber(t, neg) ==
    ParseExponent(t, {i \in 1..Len(t) : t[i] \in {"e", "E"}}, neg)

ParseUnsigned(body, low, neg) ==
    IF low = <<"n", "a", "n">> THEN [ok |-> TRUE, val |-> NaN]
    ELSE IF low \in {<<"i", "n", "f">>,
                     <<"i", "n", "f", "i", "n", "i", "t", "y">>}
      THEN [ok |-> TRUE, val |-> Inf(neg)]
    ELSE IF ~UnderscoresOk(body) THEN NotAFloat
    ELSE ParseNumber(SelectSeq(body, NotUnderscore), neg)

ParseSigned(s) ==
    IF s # <<>> /\ s[1] \in {"-", "+"}
      THEN ParseUnsigned(Tail(s), LowerStr(Tail(s)), s[1] = "-")
      ELSE ParseUnsigned(s, LowerStr(s), FALSE)

\* [ok, val]: float(text), ok = FALSE where float() raises ValueError
ParseFloat(text) == ParseSigned(StripSpace(text))

\* val = data.get(feat, 0.0); try: float(val) except: 0.0
FeatureValue(data, feat) ==
    IF feat \notin DOMAIN data THEN Zero
    ELSE IF data[feat] = None THEN Zero
    ELSE IF ParseFloat(data[feat]).ok THEN ParseFloat(data[feat]).val
    ELSE Zero

(***************************************************************************)
(* The model artifacts (ML LOADING).  Without them MODEL_LOADED is False   *)
(* and feature_names is the built-in list.  The pickled artifacts are not  *)
(* part of the repository: LoadedArtifacts is a sample of what the         *)
(* training process may supply, a scaler that leaves the columns as they   *)
(* are, the selected columns (0-based, as numpy indexes them) and a        *)
(* classifier that answers 1, with probability 0.73456, when the first     *)
(* selected column is at least 30.0, and else 0, with probability 0.0015.  *)
(***************************************************************************)
DefaultFeatureNames ==
    <<"Age", "Smokes (years)", "Hormonal Contraceptives (years)",
      "IUD (years)", "STDs (number)">>

NoArtifacts ==
    [MODEL_LOADED      |-> FALSE,
     feature_names     |-> DefaultFeatureNames,
     selected_features |-> <<>>,
     proba_high        |-> Prob(0, "exact"),
     proba_low         |-> Prob(0, "exact")]

\* 0.73456*100 is a double above 73.456, 0.0015*100 one below 0.15
LoadedArtifacts ==
    [MODEL_LOADED      |-> TRUE,
     feature_names     |-> DefaultFeatureNames,
     selected_features |-> <<0, 1, 4>>,
     proba_high        |-> Prob(73456, "above"),
     proba_low         |-> Prob(150, "below")]

\* the probability and the label of the fallback branch: 0.85 and 1
FallbackProb == Prob(85000, "exact")

FallbackPrediction == 1

\* The digits of 30 - 2^-49, halfway from 30.0 to the double before it: the
\* double nearest to a decimal is at least 30.0 when the decimal is at least
\* this.
SampleLimitDigits ==
    <<2, 9, 9, 9, 9, 9, 9, 9, 9, 9, 9, 9, 9, 9, 9, 9, 8, 2, 2, 3, 6, 4, 3, 1,
      6, 0, 5, 9, 9, 7, 4, 9, 5, 3, 5, 3, 2, 2, 1, 8, 9, 3, 3, 1, 0, 5, 4, 6,
      8, 7, 5>>

SampleLimitExp == 2

\* the double x is at least 30.0
AtLeastSampleLimit(x) ==
    /\ ~x.neg
    /\ x.digits # <<>>
    /\ MagnitudeGeq(x.digits, x.exp, SampleLimitDigits, SampleLimitExp)

\* input_data: the value of each feature of feature_names, in order
FeatureRow(names, data) ==
    [i \in 1..Len(names) |-> FeatureValue(data, names[i])]

\* model.predict and model.predict_proba on the selected columns
model_predict(art, high) ==
    [ok         |-> TRUE,
     prediction |-> IF high THEN 1 ELSE 0,
     prob       |-> IF high THEN art.proba_high ELSE art.proba_low]

\* scaler.transform, then the columns of selected_features
SelectedColumns(art, row) ==
    [j \in 1..Len(art.selected_features) |-> row[art.selected_features[j] + 1]]

\* The pipeline of the MODEL_LOADED branch; ok = FALSE where it raises (a nan
\* column is dropped by the imputer and the frame no longer has one column
\* per feature name; inf is refused).
pipeline(art, row) ==
    IF \E i \in 1..Len(row) : row[i].kind # "num"
      THEN [ok |-> FALSE, prediction |-> 0, prob |-> Prob(0, "exact")]
      ELSE model_predict(art, AtLeastSampleLimit(SelectedColumns(art, row)[1]))

\* The classification of predict: [ok, prediction, prob]
classify(art, data) ==
    IF art.MODEL_LOADED
      THEN pipeline(art, FeatureRow(art.feature_names, data))
      ELSE [ok |-> TRUE, prediction |-> FallbackPrediction,
            prob |-> FallbackProb]

(***************************************************************************)
(* The tables after INITIAL SETUP, and the shape of the state              *)
(*   users     User rows:        id -> [password, role, name]              *)
(*   patients  PatientData rows: id -> [name, age, risk_status, last_prob, *)
(*             notes, images]; notes and images are JSON text; age is a    *)
(*             nullable column, {n} or {} for NULL                         *)
(*   uploads   the upload folder: stored name -> stored bytes              *)
(*   session   the session cookie of the client: empty, or user/role/name  *)
(*   last      the response to the last request                            *)
(*   artifacts the model artifacts loaded at start                         *)
(*   pc, loc   the position and the locals of the add_note requests that   *)
(*             run concurrently (SpecConc)                                 *)
(***************************************************************************)
SeedUsers ==
    (<<"a", "d", "m", "i", "n", "1">> :>
        [password |-> <<"A", "d", "m", "i", "n", "@", "1", "2", "3">>,
         role     |-> "admin",
         name     |-> <<"S", "y", "s", "t", "e", "m", " ", "A", "d", "m", "i",
                        "n", "i", "s", "t", "r", "a", "t", "o", "r">>])
    @@
    (<<"d", "o", "c", "t", "o", "r", "1">> :>
        [password |-> <<"D", "o", "c", "t", "o", "r", "@", "1", "2", "3">>,
         role     |-> "doctor",
         name     |-> <<"D", "r", ".", " ", "S", "a", "r", "a", "v", "a", "n",
                        "a", " ", "K", "u", "m", "a", "r">>])
    @@
    (<<"r", "a", "d", "1">> :>
        [password |-> <<"R", "a", "d", "@", "1", "2", "3">>,
         role     |-> "radiologist",
         name     |-> <<"C", "h", "i", "e", "f", " ", "R", "a", "d", "i", "o",
                        "l", "o", "g", "i", "s", "t">>])

EmptyDict == [k \in {} |-> <<>>]

EmptySession == EmptyDict

\* session.get('role')
SessionRole(sess) == Get(sess, "role", "None")

\* the role checks that open create_patient, add_note and upload_biopsy
may_create_patient(sess) == SessionRole(sess) \in {"admin", "doctor"}

may_add_note(sess) == SessionRole(sess) = "doctor"

\* a variant of the upload_biopsy check that admits every logged-in user
may_upload_biopsy_any_user(sess) == "user" \in DOMAIN sess

may_upload_biopsy(sess) == SessionRole(sess) = "radiologist"

Response(op, status, message) ==
    [op |-> op, status |-> status, message |-> message, prediction |-> "",
     probability |-> <<>>, patients_dict |-> EmptyDict]

(***************************************************************************)
(* The request handlers, each as the result of one request on the current  *)
(* tables: the response and the new value of whatever the handler writes.  *)
(***************************************************************************)
login(sess, username, password) ==
    IF username \in DOMAIN users /\ users[username].password = password
      THEN [session |-> [user |-> username,
                         role |-> users[username].role,
                         name |-> users[username].name],
            resp    |-> Response("login", "redirect", "dashboard")]
      ELSE [session |-> sess,
            resp    |-> Response("login", "login.html", "Invalid Credentials")]

logout(sess) ==
    [session |-> EmptySession,
     resp    |-> Response("logout", "redirect", "login_page")]

\* a variant of dashboard_records without the branch of the patient role
dashboard_records_all(sess) == DOMAIN patients

\* the rows dashboard reads: the caller's own for a patient, all otherwise
dashboard_records(sess) ==
    IF sess.role = "patient"
      THEN {id \in DOMAIN patients : id = sess.user}
      ELSE DOMAIN patients

\* the two logs of each row of ids, as json.loads reads them
LoadedLogs(ids) ==
    [id \in ids |-> [notes  |-> JsonLoads(patients[id].notes),
                     images |-> JsonLoads(patients[id].images)]]

\* patients_dict and the page, or the response 500 to a column that
\* json.loads refuses
dashboard_page(logs) ==
    IF \E id \in DOMAIN logs : ~logs[id].notes.ok \/ ~logs[id].images.ok
      THEN Response("dashboard", "500", "JSONDecodeError")
      ELSE [Response("dashboard", "dashboard.html", "") EXCEPT
              !.patients_dict =
                 [id \in DOMAIN logs |->
                    [name        |-> patients[id].name,
                     age         |-> patients[id].age,
                     risk_status |-> patients[id].risk_status,
                     notes       |-> logs[id].notes.val,
                     images      |-> logs[id].images.val]]]

dashboard(sess) ==
    IF "user" \notin DOMAIN sess
      THEN Response("dashboard", "redirect", "login_page")
      ELSE dashboard_page(LoadedLogs(dashboard_records(sess)))

\* a variant of NewUser that stores the role capitalised
NewUser_capitalised_role(data) ==
    [password |-> data.password, role |-> "Patient", name |-> data.name]

\* User(id=new_id, password=..., role='patient', name=...)
NewUser(data) ==
    [password |-> data.password, role |-> "patient", name |-> data.name]

\* PatientData(id=new_id, name=..., age=...) with the column defaults
NewPatientData(data) ==
    [name        |-> data.name,
     age         |-> IF "age" \in DOMAIN data THEN {data.age} ELSE {},
     risk_status |-> "Pending",
     last_prob   |-> <<"N", "/", "A">>,
     notes       |-> EmptyColumn,
     images      |-> EmptyColumn]

\* lines 135-147: the role check, the validation and User.query.get(new_id);
\* ok when the request goes on to insert, else the response it ends with
create_check(sess, data) ==
    IF ~may_create_patient(sess)
      THEN [ok   |-> FALSE,
            resp |-> Response("create_patient", "error", "Unauthorized")]
    ELSE IF ~validate_registration(data).ok
      THEN [ok   |-> FALSE,
            resp |-> Response("create_patient", "error",
                              validate_registration(data).msg)]
    ELSE IF data.patient_id \in DOMAIN users
      THEN [ok   |-> FALSE,
            resp |-> Response("create_patient", "error",
                              "Patient ID already exists")]
    ELSE [ok |-> TRUE, resp |-> Response("create_patient", "", "")]

\* lines 150-159: the two rows are inserted in one transaction.  A commit
\* that meets a row of this id, in User or in PatientData, raises
\* IntegrityError, neither row is inserted, and the response carries the
\* text of the exception.
create_commit(data) ==
    IF data.patient_id \in DOMAIN users \cup DOMAIN patients
      THEN [users    |-> users,
            patients |-> patients,
            resp     |-> Response("create_patient", "error", "IntegrityError")]
      ELSE [users    |-> (data.patient_id :> NewUser(data)) @@ users,
            patients |-> (data.patient_id :> NewPatientData(data)) @@ patients,
            resp     |-> Response("create_patient", "success",
                                  "Patient Profile Created Successfully")]

create_patient(sess, data) ==
    IF create_check(sess, data).ok
      THEN create_commit(data)
      ELSE [users    |-> users,
            patients |-> patients,
            resp     |-> create_check(sess, data).resp]

ResultText(prediction) == IF prediction = 1 THEN "High Risk" ELSE "Low Risk"

\* the part of predict after the classification c
record_prediction(table, pid, c) ==
    IF ~c.ok
      THEN [patients |-> table,
            resp     |-> Response("predict", "error", "ValueError")]
      ELSE [patients |->
               IF pid \in DOMAIN table
                 THEN [table EXCEPT
                         ![pid].risk_status = ResultText(c.prediction),
                         ![pid].last_prob   = FormatPct1(c.prob)]
                 ELSE table,
            resp     |->
               [Response("predict", "success", "") EXCEPT
                  !.prediction  = ResultText(c.prediction),
                  !.probability = FormatPct2(c.prob)]]

\* The body of predict on a PatientData table and the loaded artifacts
predict_request(table, art, data) ==
    record_prediction(table, Get(data, "patient_id_context", None),
                      classify(art, data))

\* predict reads no session: sess is the caller's cookie, unused
predict(sess, data) == predict_request(patients, artifacts, data)

\* f"[{ts}] {session['name']}: {data.get('note')}"
NoteLine(ts, name, note) ==
    <<"[">> \o ts \o <<"]", " ">> \o name \o <<":", " ">> \o Str(note)

\* a variant of AppendedColumn that starts the log anew
OverwrittenColumn(column, entry) == [ok |-> TRUE, val |-> JsonDumps(<<entry>>)]

\* json.dumps of the list with the entry appended
DumpAppended(list, entry) ==
    IF list.ok
      THEN [ok |-> TRUE, val |-> JsonDumps(Append(list.val, entry))]
      ELSE [ok |-> FALSE, val |-> <<>>]

\* log = json.loads(column); log.append(entry); json.dumps(log):
\* [ok, val], ok = FALSE where json.loads raises
AppendedColumn(column, entry) == DumpAppended(JsonLoads(column), entry)

\* a variant of add_note that creates the row it does not find
add_note_upsert(sess, data, ts) ==
    LET pid  == Get(data, "patient_id", None)
        line == NoteLine(ts, sess.name, Get(data, "note", None))
    IN  IF SessionRole(sess) # "doctor"
          THEN [patients |-> patients, resp |-> Response("add_note", "error", "")]
        ELSE IF pid \in DOMAIN patients
          THEN [patients |->
                   [patients EXCEPT
                      ![pid].notes = JsonDumps(Append(JsonLoads(@).val, line))],
                resp     |-> Response("add_note", "success", "")]
        ELSE [patients |->
                 (pid :> [name        |-> <<>>,
                          age         |-> {},
                          risk_status |-> "Pending",
                          last_prob   |-> <<"N", "/", "A">>,
                          notes       |-> JsonDumps(<<line>>),
                          images      |-> <<"[", "]">>]) @@ patients,
              resp     |-> Response("add_note", "success", "")]

\* lines 208-210 with the new column col, or the response 500 to a column
\* that json.loads refused at line 205
store_note(pid, col) ==
    IF col.ok
      THEN [patients |-> [patients EXCEPT ![pid].notes = col.val],
            resp     |-> Response("add_note", "success", "")]
      ELSE [patients |-> patients,
            resp     |-> Response("add_note", "500", "JSONDecodeError")]

add_note(sess, data, ts) ==
    LET pid == Get(data, "patient_id", None)
    IN  IF ~may_add_note(sess)
          THEN [patients |-> patients, resp |-> Response("add_note", "error", "")]
        ELSE IF pid \in DOMAIN patients
          THEN store_note(pid,
                          AppendedColumn(patients[pid].notes,
                                         NoteLine(ts, sess.name,
                                                  Get(data, "note", None))))
        ELSE [patients |-> patients, resp |-> Response("add_note", "error", "")]

\* file.save(os.path.join(UPLOAD_FOLDER, filename))
SaveFile(folder, filename, bytes) ==
    (filename :> bytes) @@ [f \in DOMAIN folder \ {filename} |-> folder[f]]

\* lines 225-227 with the new column col and the folder after file.save, or
\* the response 500 to a column that json.loads refused at line 223
store_image(pid, col, saved) ==
    IF col.ok
      THEN [patients |-> [patients EXCEPT ![pid].images = col.val],
            uploads  |-> saved,
            resp     |-> Response("upload_biopsy", "success", "")]
      ELSE [patients |-> patients,
            uploads  |-> saved,
            resp     |-> Response("upload_biopsy", "500", "JSONDecodeError")]

upload_biopsy(sess, file, pid) ==
    LET same     == [patients |-> patients, uploads |-> uploads]
        filename == secure_filename(Str(pid) \o <<"_">> \o Str(file.filename))
        saved    == SaveFile(uploads, filename, file.bytes)
    IN  IF ~may_upload_biopsy(sess)
          THEN same @@ [resp |-> Response("upload_biopsy", "error", "")]
        ELSE IF ~allowed_file(file.filename)
          THEN same @@ [resp |-> Response("upload_biopsy", "error", "")]
        ELSE IF pid \in DOMAIN patients
          THEN store_image(pid, AppendedColumn(patients[pid].images, filename),
                           saved)
        ELSE [patients |-> patients,
              uploads  |-> saved,
              resp     |-> Response("upload_biopsy", "error", "")]

(***************************************************************************)
(* The requests the clients send                                           *)
(***************************************************************************)
\* the most entries (note lines and image entries together) the logs of the
\* PatientData table may hold
MaxEntries == 2

P1 == <<"p", "1">>

Ghost == <<"z", "z">>

PatientIds == {P1, <<"p", "2">>}

JaneDoe == <<"J", "a", "n", "e", " ", "D", "o", "e">>

GoodPassword == <<"A", "b", "c", "d", "e", "f", "1", "!">>

Registration(name, id, password) ==
    [name |-> name, patient_id |-> id, password |-> password, age |-> 30]

\* registrations: accepted, refused by a rule, refused as a duplicate
RegistrationInputs ==
    {Registration(JaneDoe, id, GoodPassword) : id \in PatientIds}
    \cup
    {Registration(JaneDoe, <<"p", "_", "1">>, GoodPassword),
     Registration(JaneDoe, <<"a", "d", "m", "i", "n", "1">>, GoodPassword)}

\* the (username, password) pairs of the login requests
LoginInputs ==
    {<<u, SeedUsers[u].password>> : u \in DOMAIN SeedUsers}
    \cup {<<id, GoodPassword>> : id \in PatientIds}
    \cup {<<P1, None>>, <<Ghost, GoodPassword>>, <<None, None>>}

\* a plain note, and one of characters that json.dumps escapes: quotes, a
\* backslash, a tab, a backspace, a vertical tab and DEL
NoteTexts ==
    {<<"o", "k">>,
     <<"\"", "q", "\"", ",", " ", "\\", "]", "\t", ControlSeq[8],
       ControlSeq[11], Delete>>}

NoteInputs ==
    {[patient_id |-> id, note |-> n] : id \in {P1, Ghost}, n \in NoteTexts}
    \cup {[note |-> <<"o", "k">>]}

\* datetime.now().strftime("%Y-%m-%d %H:%M")
Timestamps ==
    {<<"2", "0", "2", "6", "-", "1", "0", "-", "3", "0", " ",
       "0", "9", ":", "1", "5">>}

\* files with an accepted extension, a refused one and none, and a request
\* without a file
FileInputs ==
    {[filename |-> f, bytes |-> "b1"] :
        f \in {<<"s", ".", "p", "n", "g">>,
               <<"s", ".", "e", "x", "e">>,
               <<"p", "n", "g">>}}
    \cup {[filename |-> None, bytes |-> ""]}

UploadIds == {P1, Ghost}

\* the feature values of a predict request; a feature left out is absent
FeatureInputs ==
    {("Age" :> <<"3", "4">>) @@ ("Smokes (years)" :> <<"5">>),
     ("Age" :> <<"a", "b", "c">>) @@ ("STDs (number)" :> <<" ", "4", ".", "5">>),
     ("Age" :> <<"n", "a", "n">>)}

PredictInputs ==
    {("patient_id_context" :> id) @@ f :
        id \in {P1, Ghost}, f \in FeatureInputs}

(***************************************************************************)
(* Requests processed one at a time: a request is answered before the next *)
(* one starts, and each action below is a whole handler.  The requests     *)
(* that run at once, where another request's step may fall between the     *)
(* read and the commit of a handler, are those of SpecConc.                *)
(***************************************************************************)
Workers == {1, 2}

\* the locals of a request that has not started
IdleLoc ==
    [op |-> "", sess |-> EmptySession, data |-> EmptyDict, ts |-> <<>>,
     column |-> <<>>, notes |-> <<>>, filename |-> <<>>, imgs |-> <<>>,
     status |-> "", message |-> ""]

Notes(table, id) == JsonLoads(table[id].notes).val

Images(table, id) == JsonLoads(table[id].images).val

RECURSIVE TotalLen(_, _)
\* the number of entries of the logs table holds for the rows ids
TotalLen(table, ids) ==
    IF ids = {} THEN 0
    ELSE LET id == CHOOSE x \in ids : TRUE
         IN  Len(table[id]) + TotalLen(table, ids \ {id})

\* the tables stay within the bound of the model
WithinBounds(table, folder) ==
    TotalLen([id \in DOMAIN table |-> Notes(table, id)], DOMAIN table)
      + TotalLen([id \in DOMAIN table |-> Images(table, id)], DOMAIN table)
      <= MaxEntries

Init ==
    /\ users = SeedUsers
    /\ patients = EmptyDict
    /\ uploads = EmptyDict
    /\ session = EmptySession
    /\ last = Response("start", "", "")
    /\ artifacts \in {NoArtifacts, LoadedArtifacts}
    /\ pc = [w \in Workers |-> "idle"]
    /\ loc = [w \in Workers |-> IdleLoc]

\* A handler's result r names the response and what the handler writes
\* (users, patients, uploads, session); whatever r does not name is left as
\* it is.
Apply(r) ==
    /\ users' = Get(r, "users", users)
    /\ patients' = Get(r, "patients", patients)
    /\ uploads' = Get(r, "uploads", uploads)
    /\ session' = Get(r, "session", session)
    /\ last' = r.resp
    /\ UNCHANGED <<artifacts, pc, loc>>

\* no add_note request is in progress in a server thread
Quiet == \A w \in Workers : pc[w] = "idle"

Login ==
    \E cred \in LoginInputs :
        /\ Quiet
        /\ Apply(login(session, cred[1], cred[2]))

Logout ==
    /\ Quiet
    /\ Apply(logout(session))

Dashboard ==
    /\ Quiet
    /\ Apply([resp |-> dashboard(session)])

CreatePatient(data) ==
    /\ Quiet
    /\ Apply(create_patient(session, data))

Predict(data) ==
    /\ Quiet
    /\ Apply(predict(session, data))

\* a result is applied when its tables stay within the bound of the model
BoundedApply(r) ==
    /\ WithinBounds(Get(r, "patients", patients), Get(r, "uploads", uploads))
    /\ Apply(r)

AddNote(data, ts) ==
    /\ Quiet
    /\ BoundedApply(add_note(session, data, ts))

UploadBiopsy(file, pid) ==
    /\ Quiet
    /\ BoundedApply(upload_biopsy(session, file, pid))

Next ==
    \/ Login
    \/ Logout
    \/ Dashboard
    \/ \E data \in RegistrationInputs : CreatePatient(data)
    \/ \E data \in PredictInputs : Predict(data)
    \/ \E data \in NoteInputs, ts \in Timestamps : AddNote(data, ts)
    \/ \E file \in FileInputs, pid \in UploadIds : UploadBiopsy(file, pid)

\* the application started without the model artifacts (MODEL_LOADED False)
InitFallback == Init /\ artifacts = NoArtifacts

Spec == InitFallback /\ [][Next]_vars

(***************************************************************************)
(* Registration: login, logout and create_patient on registrations that    *)
(* take every branch of validate_registration                              *)
(***************************************************************************)
Pad(s, c, n) == s \o [i \in 1..(n - Len(s)) |-> c]

\* names: accepted (the second with a vertical tab for its space), with a
\* digit, empty
NameInputs ==
    {JaneDoe,
     <<"J", "a", "n", "e", ControlSeq[11], "D", "o", "e">>,
     <<"J", "4", "n", "e">>,
     <<>>}

IdInputs ==
    PatientIds \cup
    {<<"p", "1", "\n">>, <<"p", "_", "1">>, <<>>,
     <<"a", "d", "m", "i", "n", "1">>}

PasswordInputs ==
    {GoodPassword,
     Pad(GoodPassword, "x", MaxPwdLen),
     Pad(GoodPassword, "x", MaxPwdLen + 1),
     <<"A", "b", "c", "d", "e", "1", "!">>,
     <<"a", "b", "c", "d", "e", "f", "1", "!">>,
     <<"A", "b", "c", "d", "e", "f", "g", "!">>,
     <<"A", "b", "c", "d", "e", "f", "g", "1">>}

AllRegistrationInputs ==
    {Registration(n, id, pw) :
        n \in NameInputs, id \in IdInputs, pw \in PasswordInputs}
    \cup {[name |-> JaneDoe], [patient_id |-> P1, password |-> GoodPassword]}

NextReg ==
    \/ Login
    \/ Logout
    \/ \E data \in AllRegistrationInputs : CreatePatient(data)

SpecReg == InitFallback /\ [][NextReg]_vars

(***************************************************************************)
(* Prediction: with and without the model artifacts, for every patient     *)
(***************************************************************************)
AllFeatureInputs ==
    FeatureInputs \cup
    {("Age" :> <<"2", "0">>) @@ ("IUD (years)" :> <<"i", "n", "f">>),
     ("Age" :> <<"2", "0">>) @@ ("Smokes (years)" :> <<"-", "1", ".", "5">>),
     ("Age" :> <<"3", "e", "1">>) @@ ("Smokes (years)" :> <<"1", "_", "0">>),
     ("Age" :> <<"2", "9", ".", "9", "9", "9", "5">>)
        @@ ("IUD (years)" :> <<ControlSeq[28], "4">>)}

AllPredictInputs ==
    {("patient_id_context" :> id) @@ f :
        id \in PatientIds \cup {Ghost}, f \in AllFeatureInputs}
    \cup FeatureInputs

NextPredict ==
    \/ Login
    \/ Logout
    \/ \E data \in RegistrationInputs : CreatePatient(data)
    \/ \E data \in AllPredictInputs : Predict(data)

SpecPredict == Init /\ [][NextPredict]_vars

(***************************************************************************)
(* Two requests running at once, each in its own server thread with its    *)
(* own database session, each an add_note, a create_patient or an          *)
(* upload_biopsy.  The steps of a request are the places where it reads    *)
(* or writes what the threads share, the tables and the upload folder:     *)
(*   add_note       reads the row (line 203), builds the new log in memory *)
(*                  (205-207), writes the column back and commits          *)
(*                  (208-209), and returns (210);                          *)
(*   create_patient tests the id (135-147), then inserts and commits       *)
(*                  (150-159);                                             *)
(*   upload_biopsy  saves the file (215-220), reads the row and builds the *)
(*                  new log in memory (221-224), then writes the column    *)
(*                  back and commits (225-227).                            *)
(* A commit writes the whole text of the column the request has built,     *)
(* whatever the column holds by then.                                      *)
(***************************************************************************)
SessionOf(id) ==
    [user |-> id, role |-> SeedUsers[id].role, name |-> SeedUsers[id].name]

\* the sessions of doctor1 and of rad1, and no session
ConcSessions ==
    {SessionOf(<<"d", "o", "c", "t", "o", "r", "1">>),
     SessionOf(<<"r", "a", "d", "1">>),
     EmptySession}

\* registrations of a new id and of an id refused by the validation
ConcRegistrations ==
    {Registration(JaneDoe, <<"p", "2">>, GoodPassword),
     Registration(JaneDoe, <<"p", "_", "1">>, GoodPassword)}

\* two files with an accepted extension and one with a refused one
ConcFiles ==
    {[filename |-> f, bytes |-> "b1"] :
        f \in {<<"a", ".", "p", "n", "g">>,
               <<"b", ".", "p", "n", "g">>,
               <<"s", ".", "e", "x", "e">>}}

\* the tables after doctor1 has registered patient p1
InitConc ==
    /\ users = (P1 :> NewUser(Registration(JaneDoe, P1, GoodPassword)))
                 @@ SeedUsers
    /\ patients = (P1 :> NewPatientData(Registration(JaneDoe, P1, GoodPassword)))
    /\ uploads = EmptyDict
    /\ session = EmptySession
    /\ last = Response("start", "", "")
    /\ artifacts = NoArtifacts
    /\ pc = [w \in Workers |-> "idle"]
    /\ loc = [w \in Workers |-> IdleLoc]

\* what no step of a concurrent request writes
Rest == <<session, last, artifacts>>

\* lines 201-204: the role check and PatientData.query.get
NoteBegin(w, sess, data, ts) ==
    /\ pc[w] = "idle"
    /\ IF may_add_note(sess) /\ Get(data, "patient_id", None) \in DOMAIN patients
         THEN /\ pc' = [pc EXCEPT ![w] = "read"]
              /\ loc' = [loc EXCEPT ![w] =
                           [IdleLoc EXCEPT
                              !.op = "add_note", !.sess = sess, !.data = data,
                              !.ts = ts,
                              !.column = patients[data.patient_id].notes]]
         ELSE /\ pc' = [pc EXCEPT ![w] = "done"]
              /\ loc' = [loc EXCEPT ![w] =
                           [IdleLoc EXCEPT
                              !.op = "add_note", !.sess = sess, !.data = data,
                              !.ts = ts, !.status = "error"]]
    /\ UNCHANGED <<users, patients, uploads, Rest>>

\* the list json.loads has read, with the line appended; a column that
\* json.loads refuses ends the request with the response 500
NoteAppended(w, list) ==
    IF list.ok
      THEN /\ pc' = [pc EXCEPT ![w] = "appended"]
           /\ loc' = [loc EXCEPT ![w].notes =
                        Append(list.val,
                               NoteLine(loc[w].ts, loc[w].sess.name,
                                        Get(loc[w].data, "note", None)))]
      ELSE /\ pc' = [pc EXCEPT ![w] = "done"]
           /\ loc' = [loc EXCEPT ![w].status = "500"]

\* lines 205-207: json.loads and notes.append, in the request's memory
NoteAppend(w) ==
    /\ pc[w] = "read"
    /\ NoteAppended(w, JsonLoads(loc[w].column))
    /\ UNCHANGED <<users, patients, uploads, Rest>>

\* lines 208-209: patient.notes = json.dumps(notes); db.session.commit()
NoteCommit(w) ==
    /\ pc[w] = "appended"
    /\ pc' = [pc EXCEPT ![w] = "committed"]
    /\ patients' = [patients EXCEPT
                      ![loc[w].data.patient_id].notes = JsonDumps(loc[w].notes)]
    /\ UNCHANGED <<users, uploads, loc, Rest>>

\* line 210: return jsonify({'status': 'success'})
NoteReturn(w) ==
    /\ pc[w] = "committed"
    /\ pc' = [pc EXCEPT ![w] = "done"]
    /\ loc' = [loc EXCEPT ![w].status = "success"]
    /\ UNCHANGED <<users, patients, uploads, Rest>>

\* lines 135-147: the request ends with an error, or has found no User row
\* of the id
CreateCheck(w, sess, data) ==
    /\ pc[w] = "idle"
    /\ pc' = [pc EXCEPT ![w] =
                IF create_check(sess, data).ok THEN "checked" ELSE "done"]
    /\ loc' = [loc EXCEPT ![w] =
                 [IdleLoc EXCEPT
                    !.op = "create_patient", !.sess = sess, !.data = data,
                    !.status = create_check(sess, data).resp.status,
                    !.message = create_check(sess, data).resp.message]]
    /\ UNCHANGED <<users, patients, uploads, Rest>>

\* lines 150-159: the insert of the two rows, the commit and the response
CreateCommit(w) ==
    /\ pc[w] = "checked"
    /\ pc' = [pc EXCEPT ![w] = "done"]
    /\ users' = create_commit(loc[w].data).users
    /\ patients' = create_commit(loc[w].data).patients
    /\ loc' = [loc EXCEPT
                 ![w].status = create_commit(loc[w].data).resp.status,
                 ![w].message = create_commit(loc[w].data).resp.message]
    /\ UNCHANGED <<uploads, Rest>>

\* lines 215-220: the role check, the extension test and file.save
UploadSave(w, sess, file, pid) ==
    /\ pc[w] = "idle"
    /\ IF may_upload_biopsy(sess) /\ allowed_file(file.filename)
         THEN /\ pc' = [pc EXCEPT ![w] = "saved"]
              /\ uploads' =
                   SaveFile(uploads,
                            secure_filename(Str(pid) \o <<"_">>
                                              \o Str(file.filename)),
                            file.bytes)
              /\ loc' = [loc EXCEPT ![w] =
                           [IdleLoc EXCEPT
                              !.op = "upload_biopsy", !.sess = sess,
                              !.data = [patient_id |-> pid],
                              !.filename =
                                 secure_filename(Str(pid) \o <<"_">>
                                                   \o Str(file.filename))]]
         ELSE /\ pc' = [pc EXCEPT ![w] = "done"]
              /\ uploads' = uploads
              /\ loc' = [loc EXCEPT ![w] =
                           [IdleLoc EXCEPT
                              !.op = "upload_biopsy", !.sess = sess,
                              !.data = [patient_id |-> pid],
                              !.status = "error"]]
    /\ UNCHANGED <<users, patients, Rest>>

\* lines 221-224: PatientData.query.get, json.loads and imgs.append.  Without
\* the row the request ends at line 228, and a column that json.loads
\* refuses ends it with the response 500.
UploadRead(w) ==
    /\ pc[w] = "saved"
    /\ IF loc[w].data.patient_id \notin DOMAIN patients
         THEN /\ pc' = [pc EXCEPT ![w] = "done"]
              /\ loc' = [loc EXCEPT ![w].status = "error"]
         ELSE IF JsonLoads(patients[loc[w].data.patient_id].images).ok
           THEN /\ pc' = [pc EXCEPT ![w] = "listed"]
                /\ loc' = [loc EXCEPT ![w].imgs =
                             Append(JsonLoads(patients[loc[w].data.patient_id]
                                                .images).val,
                                    loc[w].filename)]
           ELSE /\ pc' = [pc EXCEPT ![w] = "done"]
                /\ loc' = [loc EXCEPT ![w].status = "500"]
    /\ UNCHANGED <<users, patients, uploads, Rest>>

\* lines 225-227: patient.images = json.dumps(imgs), the commit and the
\* response
UploadCommit(w) ==
    /\ pc[w] = "listed"
    /\ pc' = [pc EXCEPT ![w] = "done"]
    /\ patients' = [patients EXCEPT
                      ![loc[w].data.patient_id].images = JsonDumps(loc[w].imgs)]
    /\ loc' = [loc EXCEPT ![w].status = "success"]
    /\ UNCHANGED <<users, uploads, Rest>>

NextConc ==
    \E w \in Workers :
        \/ \E sess \in ConcSessions, data \in NoteInputs, ts \in Timestamps :
              NoteBegin(w, sess, data, ts)
        \/ NoteAppend(w)
        \/ NoteCommit(w)
        \/ NoteReturn(w)
        \/ \E sess \in ConcSessions, data \in ConcRegistrations :
              CreateCheck(w, sess, data)
        \/ CreateCommit(w)
        \/ \E sess \in ConcSessions, file \in ConcFiles, pid \in UploadIds :
              UploadSave(w, sess, file, pid)
        \/ UploadRead(w)
        \/ UploadCommit(w)

SpecConc == InitConc /\ [][NextConc]_vars

(***************************************************************************)
(* Properties                                                              *)
(***************************************************************************)
IsPrefix(a, b) == Len(a) <= Len(b) /\ SubSeq(b, 1, Len(a)) = a

OnlyOf(class, s) == Len(s) >= 1 /\ \A i \in 1..Len(s) : s[i] \in class

\* the text "85.00%" and "85.0%"
Pct8500 == <<"8", "5", ".", "0", "0", "%">>

Pct850 == <<"8", "5", ".", "0", "%">>

\* C1: a create_patient, add_note or upload_biopsy request whose session role
\* is not in the operation's allowed set (no session included) is answered
\* with status error and leaves the User table, the PatientData table and the
\* upload folder as they were.
C1_RoleCheckPrecedesMutation ==
    [][(\/ /\ last'.op = "create_patient"
           /\ SessionRole(session) \notin {"admin", "doctor"}
        \/ /\ last'.op = "add_note"
           /\ SessionRole(session) # "doctor"
        \/ /\ last'.op = "upload_biopsy"
           /\ SessionRole(session) # "radiologist")
       => /\ last'.status = "error"
          /\ UNCHANGED <<users, patients, uploads>>]_vars

\* a doctor's upload_biopsy was refused while patient p1 exists
C1_Witness ==
    /\ last.op = "upload_biopsy"
    /\ last.status = "error"
    /\ SessionRole(session) = "doctor"
    /\ P1 \in DOMAIN patients

\* C2: a predict request made with no authenticated session is answered with
\* an authorization error and leaves every patient's risk_status and
\* last_prob as they were.
C2_PredictNeedsSession ==
    [][(last'.op = "predict" /\ "user" \notin DOMAIN session)
       => /\ last'.status = "error"
          /\ \A id \in DOMAIN patients :
                /\ patients'[id].risk_status = patients[id].risk_status
                /\ patients'[id].last_prob = patients[id].last_prob]_vars

\* C3: the ids of the PatientData table are the ids of the users whose role
\* is patient.
C3_PatientsMatchPatientUsers ==
    DOMAIN patients = {id \in DOMAIN users : users[id].role = "patient"}

\* both patients have been registered, the second one just now
C3_Witness ==
    /\ PatientIds \subseteq DOMAIN patients
    /\ last.op = "create_patient"
    /\ last.status = "success"

\* what C4 asks of a registration
WellFormed(data) ==
    /\ OnlyOf(NameClass, Get(data, "name", <<>>))
    /\ OnlyOf(IdClass, Get(data, "patient_id", <<>>))
    /\ Len(Get(data, "password", <<>>)) \in 8..16
    /\ SearchClass(Upper, Get(data, "password", <<>>))
    /\ SearchClass(Digit, Get(data, "password", <<>>))
    /\ SearchClass(Special, Get(data, "password", <<>>))

\* C4: for an admin or doctor session create_patient returns success exactly
\* when the name is letters and whitespace only, the patient_id letters and
\* digits only, the password 8 to 16 long with an uppercase letter, a digit
\* and a special character, and the id not yet present; otherwise it returns
\* an error and adds no row.
C4_CreateSucceedsIffValid ==
    [][\A data \in AllRegistrationInputs :
          (/\ last'.op = "create_patient"
           /\ SessionRole(session) \in {"admin", "doctor"}
           /\ CreatePatient(data))
          => /\ (last'.status = "success")
                  <=> (/\ WellFormed(data)
                       /\ data.patient_id \notin DOMAIN users)
             /\ last'.status # "success"
                  => UNCHANGED <<users, patients>>]_vars

\* C5: the records dashboard returns to a session of role patient are none
\* but the caller's own.
C5_PatientSeesOwnRecordOnly ==
    (last.op = "dashboard" /\ SessionRole(session) = "patient")
       => DOMAIN last.patients_dict \subseteq {session.user}

\* a patient was shown exactly the own record while another patient exists
C5_Witness ==
    /\ last.op = "dashboard"
    /\ SessionRole(session) = "patient"
    /\ DOMAIN last.patients_dict = {session.user}
    /\ DOMAIN patients \ {session.user} # {}

\* C6: no step removes a User or PatientData row, and every patient's notes
\* log and images log before the step is a prefix of the log after it (a
\* column the step leaves as it was holds the same log).
C6_AppendOnly ==
    [][/\ DOMAIN users \subseteq DOMAIN users'
       /\ DOMAIN patients \subseteq DOMAIN patients'
       /\ \A id \in DOMAIN patients :
             /\ \/ patients'[id].notes = patients[id].notes
                \/ IsPrefix(Notes(patients, id), Notes(patients', id))
             /\ \/ patients'[id].images = patients[id].images
                \/ IsPrefix(Images(patients, id), Images(patients', id))]_vars

\* a second, different note has been appended to a log
C6_Witness ==
    \E id \in DOMAIN patients :
        /\ Len(Notes(patients, id)) >= 2
        /\ Notes(patients, id)[1] # Notes(patients, id)[2]
        /\ last.op = "add_note"
        /\ last.status = "success"

\* C7: an upload_biopsy by a radiologist for a patient id that does not exist
\* or with a file whose extension is not accepted returns status error,
\* writes no file and changes no images log.
C7_FailedUploadStoresNothing ==
    [][\A file \in FileInputs, pid \in UploadIds :
          (/\ last'.op = "upload_biopsy"
           /\ SessionRole(session) = "radiologist"
           /\ UploadBiopsy(file, pid)
           /\ (pid \notin DOMAIN patients \/ ~allowed_file(file.filename)))
          => /\ last'.status = "error"
             /\ uploads' = uploads
             /\ \A id \in DOMAIN patients :
                   patients'[id].images = patients[id].images]_vars

\* C8: add_note by a doctor for a patient_id without a PatientData row returns
\* status error and leaves the User and PatientData tables as they were.
C8_NoteForUnknownPatient ==
    [][\A data \in NoteInputs, ts \in Timestamps :
          (/\ last'.op = "add_note"
           /\ SessionRole(session) = "doctor"
           /\ AddNote(data, ts)
           /\ Get(data, "patient_id", None) \notin DOMAIN patients)
          => /\ last'.status = "error"
             /\ UNCHANGED <<users, patients>>]_vars

\* a doctor's add_note was refused while some patient has a note
C8_Witness ==
    /\ last.op = "add_note"
    /\ last.status = "error"
    /\ SessionRole(session) = "doctor"
    /\ \E id \in DOMAIN patients : Len(Notes(patients, id)) >= 1

\* C9: after a predict request, the same request again returns the same
\* response and leaves the tables as the first call left them; without the
\* model artifacts the response is High Risk with 85.00% and an existing
\* patient's risk_status becomes High Risk and last_prob 85.0%.
C9_PredictIdempotent ==
    [][\A data \in AllPredictInputs :
          (last'.op = "predict" /\ Predict(data))
          => /\ predict_request(patients', artifacts, data).resp = last'
             /\ predict_request(patients', artifacts, data).patients = patients'
             /\ ~artifacts.MODEL_LOADED
                  => /\ last'.status = "success"
                     /\ last'.prediction = "High Risk"
                     /\ last'.probability = Pct8500
                     /\ Get(data, "patient_id_context", None) \in DOMAIN patients
                          => /\ patients'[data.patient_id_context].risk_status
                                  = "High Risk"
                             /\ patients'[data.patient_id_context].last_prob
                                  = Pct850]_vars

\* without the artifacts, a predict for p1 has stored High Risk and 85.0%
C9_Witness ==
    /\ last.op = "predict"
    /\ last.probability = Pct8500
    /\ ~artifacts.MODEL_LOADED
    /\ P1 \in DOMAIN patients
    /\ patients[P1].risk_status = "High Risk"
    /\ patients[P1].last_prob = Pct850

\* the line a finished request has appended
LineOf(w) ==
    NoteLine(loc[w].ts, loc[w].sess.name, Get(loc[w].data, "note", None))

\* C10: once both concurrent add_note requests have returned, the note of
\* every request that returned success is in the patient's notes log.
C10_NoAcknowledgedNoteLost ==
    (\A w \in Workers : pc[w] = "done")
       => \A w \in Workers :
             (loc[w].op = "add_note" /\ loc[w].status = "success")
                => LineOf(w) \in Range(Notes(patients, loc[w].data.patient_id))

====
